---- MODULE Spec2Model ----
(***************************************************************************)
(* stack-to-chunk: slab-parallel ingestion of a 3D volume into level 0 of  *)
(* a multiscale zarr group and block-parallel 2x2x2 local-mean             *)
(* downsampling into levels 1, 2, ...                                      *)
(*                                                                         *)
(* The model follows src/src/stack_to_chunk/main.py (MultiScaleGroup, the  *)
(* orchestrator) and src/src/stack_to_chunk/_array_helpers.py (the slab    *)
(* and block tasks).  Indices are 0-based as in the source; a shape, a     *)
(* chunk shape and a voxel index are triples <<x, y, z>>.  joblib's        *)
(* Parallel is modelled as a set of pending tasks of which any one may run *)
(* next, and which is dropped when a task raises.                          *)
(*                                                                         *)
(* Floats of the metadata document are kept in units of one half, so that  *)
(* scale * 0.5 stays an integer: the scale 3.0 is stored as 6.             *)
(***************************************************************************)
EXTENDS Integers, Sequences, FiniteSets, TLC

\* ------------------------------------------------------------- bounds
\* Largest extent of the level-0 array on the x axis.
MaxX == 5
\* Largest extent on the y and on the z axis.
MaxY == 2
MaxZ == 3
\* Largest number of voxels of the level-0 array.
MaxVoxels == 12
\* Largest chunk side C of the array_spec.
MaxChunk == 2
\* Highest level the group can hold.
MaxLevel == 3
\* Largest number of add_full_res_data / add_downsample_level calls that
\* dispatch tasks in one run (a call that raises before its dispatch is free).
MaxCalls == 2
\* Number of input volumes.
NPatterns == 2
\* Largest of the small chunk sizes given to _rechunk_to_even.
MaxRechunk == 6

Levels == 0 .. MaxLevel

Shapes ==
  {s \in (1 .. MaxX) \X (1 .. MaxY) \X (1 .. MaxZ) : s[1] * s[2] * s[3] <= MaxVoxels}

ChunkSizes == 1 .. MaxChunk

\* ------------------------------------------------------------ helpers
Min(a, b) == IF a <= b THEN a ELSE b

\* Python's range(start, stop, step), step > 0, as a set.
Range(start, stop, step) ==
  {i \in start .. (stop - 1) : (i - start) % step = 0}

\* All voxel indices of an array of the given shape.
Coords(shape) ==
  (0 .. shape[1] - 1) \X (0 .. shape[2] - 1) \X (0 .. shape[3] - 1)

\* The voxel indices inside a triple of half-open slices <<start, stop>>.
Region(sl) ==
  (sl[1][1] .. sl[1][2] - 1) \X (sl[2][1] .. sl[2][2] - 1) \X (sl[3][1] .. sl[3][2] - 1)

\* tensorstore indexing, arr[slice(start, stop)] on every axis: an interval
\* with stop < start, or one that is not inside the domain [0, shape), is an
\* index error (unlike NumPy, nothing is clipped).
SliceValid(sl, shape) ==
  \A a \in 1 .. 3 : 0 <= sl[a][1] /\ sl[a][1] <= sl[a][2] /\ sl[a][2] <= shape[a]

SliceEmpty(sl) == \E a \in 1 .. 3 : sl[a][1] >= sl[a][2]

SliceShape(sl) == [a \in 1 .. 3 |-> sl[a][2] - sl[a][1]]

\* ------------------------------------------------------ input volumes
\* The volume of test_known_data and test_padding: arange(8).reshape(2,2,2)
\* with the slice [[10, 10], [12, 16]] appended on the first axis; continued
\* periodically in y and z and by arange in x.
KnownData(x, y, z) ==
  IF x = 2
    THEN <<10, 10, 12, 16>>[2 * (y % 2) + (z % 2) + 1]
    ELSE 4 * x + 2 * (y % 2) + (z % 2)

\* Input volume number k at voxel (x, y, z); volume 2 is negative throughout.
Volume(k, x, y, z) ==
  IF k = 1 THEN KnownData(x, y, z) ELSE 0 - (1 + KnownData(x, y, z))

\* ------------------------------------------------- arrays and metadata
\* A level that is not in the group.
Absent ==
  [present |-> FALSE, shape |-> <<0, 0, 0>>, chunks |-> <<0, 0, 0>>,
   dtype |-> "", compressors |-> "", data |-> [c \in {} |-> 0]]

\* A newly created array: every chunk is missing and reads as the fill value 0.
NewArray(shape, chunks, dtype, compressors) ==
  [present |-> TRUE, shape |-> shape, chunks |-> chunks,
   dtype |-> dtype, compressors |-> compressors,
   data |-> [c \in Coords(shape) |-> 0]]

\* The array_spec arguments of the constructor: every shape and every cubic
\* chunk shape; to keep the number of states down each chunk side comes with
\* one element type and one compressor.
ArraySpecs ==
  {[shape |-> s, chunks |-> <<c, c, c>>,
    dtype |-> IF c = 1 THEN "uint16" ELSE "int32",
    compressors |-> IF c = 1 THEN "blosc-zstd" ELSE "gzip"] :
     s \in Shapes, c \in ChunkSizes}

\* The name, spatial_unit and voxel_size arguments of the constructor: those of
\* the tests, and a second set that differs in each.
GroupArgs ==
  {[name |-> "my_zarr_group", spatial_unit |-> "centimeter", voxel_size |-> <<6, 8, 10>>],
   [name |-> "other_group", spatial_unit |-> "micrometer", voxel_size |-> <<2, 2, 2>>]}

\* Voxel sizes (x, y, z) are in units of one half: (3, 4, 5) of the tests is
\* <<6, 8, 10>>.

\* 2 ** level
RECURSIVE Pow2(_)
Pow2(n) == IF n = 0 THEN 1 ELSE 2 * Pow2(n - 1)

\* The dataset entry of a level: scale = voxel_size * 2**level, translation =
\* scale * 0.5, in that order (both in units of one half).
new_dataset(voxel_size, level) ==
  LET scale_factors == [a \in 1 .. 3 |-> voxel_size[a] * Pow2(level)]
  IN  [path |-> level,
       coordinateTransformations |->
         << [type |-> "scale", v |-> scale_factors],
            [type |-> "translation", v |-> [a \in 1 .. 3 |-> scale_factors[a] \div 2]] >>]

\* The attributes of a group.  ome: whether the "ome" key is there; name, unit
\* and datasets: "name", the "unit" of the first of "axes", and "datasets" of
\* attrs["ome"]["multiscales"][0]; multiscales: the top-level
\* "multiscales" key, <<>> when it is not there and else the one-element list
\* of the datasets list of its document.
\* The attributes of a group that holds no multiscale document:
NoAttrs == [ome |-> FALSE, name |-> "", unit |-> "", datasets |-> <<>>, multiscales |-> <<>>]

\* The datasets list of test_fix_transform_order: a level-0 entry with the
\* translation (0.5, 0.5, 0.5) before the scale (3, 4, 5).
LegacyDatasets ==
  << [path |-> 0,
      coordinateTransformations |->
        << [type |-> "translation", v |-> <<1, 1, 1>>],
           [type |-> "scale", v |-> <<6, 8, 10>>] >>] >>

\* The group of test_fix_transform_order: no arrays, and that document under
\* the top-level key "multiscales".
LegacyAttrs ==
  [ome |-> FALSE, name |-> "", unit |-> "", datasets |-> <<>>,
   multiscales |-> <<LegacyDatasets>>]

\* The same document under the key "ome".
LegacyOmeAttrs ==
  [ome |-> TRUE, name |-> "my_zarr_group", unit |-> "centimeter",
   datasets |-> LegacyDatasets, multiscales |-> <<>>]

\* ------------------------------------------------------------- slabs
\* Slabs that all have length chunk_size, the last one too.
slab_idxs_unclipped(nz, chunk_size) ==
  {<<z, z + chunk_size>> : z \in Range(0, nz, chunk_size)}

\* slab_idxs of add_full_res_data: (z, min(z + chunk_size, nz)) for z in
\* range(0, nz, chunk_size).
slab_idxs(nz, chunk_size) ==
  {<<z, Min(z + chunk_size, nz)>> : z \in Range(0, nz, chunk_size)}

\* Slab tasks whose destination ignores start_z_idx.
slab_args_unshifted(nz, chunk_size, start_z_idx) ==
  {[zmin |-> s[1], zmax |-> s[2], zstart |-> s[1], zend |-> s[2]] :
     s \in slab_idxs(nz, chunk_size)}

\* all_args of add_full_res_data: one slab task per entry of slab_idxs, with
\* its destination z range shifted by start_z_idx.
slab_args(nz, chunk_size, start_z_idx) ==
  {[zmin |-> s[1], zmax |-> s[2],
    zstart |-> s[1] + start_z_idx, zend |-> s[2] + start_z_idx] :
     s \in slab_idxs(nz, chunk_size)}

\* The destination of a slab task: arr_zarr[:, :, zstart:zend].
slab_slice(arr, t) ==
  << <<0, arr.shape[1]>>, <<0, arr.shape[2]>>, <<t.zstart, t.zend>> >>

\* The input array `data` of a call: the sub-volume of input volume inp.k that
\* starts at z = inp.z0, of shape (X, Y, inp.nz), chunked inp.zchunk along z.
InputAt(inp, x, y, z) == Volume(inp.k, x, y, z + inp.z0)

\* A slab copy that forgets where the slab starts in the input.
copy_slab_data_from_zero(arr, inp, t) ==
  [c \in Coords(arr.shape) |->
     IF c \in Region(slab_slice(arr, t))
       THEN InputAt(inp, c[1], c[2], c[3] - t.zstart)
       ELSE arr.data[c]]

\* _copy_slab: slice i of the slab (slice zmin + i of the input) is read into
\* data[:, :, i], and data is written to arr_zarr[:, :, zstart:zend].
copy_slab_data(arr, inp, t) ==
  [c \in Coords(arr.shape) |->
     IF c \in Region(slab_slice(arr, t))
       THEN InputAt(inp, c[1], c[2], t.zmin + (c[3] - t.zstart))
       ELSE arr.data[c]]

\* Whether the write of _copy_slab is accepted by the store.
\* _open_with_tensorstore is taken to open the array the task was given:
\* the orchestrator passes the array object of the group where the task
\* names its parameter arr_path, and the model uses that array directly.
copy_slab_ok(arr, t) == SliceValid(slab_slice(arr, t), arr.shape)

\* ------------------------------------------------------------ blocks
\* A halving that rounds down.
new_shape_floor(shape) == [a \in 1 .. 3 |-> shape[a] \div 2]

\* new_shape of add_downsample_level: math.ceil(i / 2) on each axis.
new_shape(shape) == [a \in 1 .. 3 |-> (shape[a] + 1) \div 2]

\* _half_shape of downsample.py: np.ceil(np.array(input_shape) / 2).astype(int).
_half_shape(input_shape) ==
  [a \in 1 .. 3 |-> (input_shape[a] \div 2) + (IF input_shape[a] % 2 = 0 THEN 0 ELSE 1)]

\* block_indices of add_downsample_level: range(0, source shape, chunk_size * 2)
\* on each axis.
block_indices(source_shape, chunk_size) ==
  Range(0, source_shape[1], chunk_size * 2)
    \X Range(0, source_shape[2], chunk_size * 2)
    \X Range(0, source_shape[3], chunk_size * 2)

\* The alignment assertion of _downsample_block: block_idx % shard_shape == 0.
block_aligned(block_idx, shard_shape) ==
  \A a \in 1 .. 3 : block_idx[a] % shard_shape[a] = 0

\* in_slice of _downsample_block.
in_slice(block_idx, shard_shape, in_shape) ==
  [a \in 1 .. 3 |->
     <<block_idx[a] * 2, Min((block_idx[a] + shard_shape[a]) * 2, in_shape[a])>>]

\* out_slice of _downsample_block.
out_slice(block_idx, shard_shape, out_shape) ==
  [a \in 1 .. 3 |->
     <<block_idx[a], Min(block_idx[a] + shard_shape[a], out_shape[a])>>]

\* The shape of the block after np.pad to even lengths and block_reduce by 2.
reduced_shape(sl) ==
  [a \in 1 .. 3 |-> (SliceShape(sl)[a] + (SliceShape(sl)[a] % 2)) \div 2]

\* float -> integer astype of the mean of 8 integers: truncation toward zero.
mean8_astype(sum) == IF sum >= 0 THEN sum \div 8 ELSE 0 - ((0 - sum) \div 8)

\* Element i (a triple, local to the block) of the reduced block: the mean of
\* the 2x2x2 samples of the edge-padded data read from arr_in[in_slice].
block_reduce(arr_in, sl, i) ==
  LET src(a, d) == sl[a][1] + Min(2 * i[a] + d, SliceShape(sl)[a] - 1)
      at(dx, dy, dz) == arr_in.data[<<src(1, dx), src(2, dy), src(3, dz)>>]
  IN  mean8_astype(at(0, 0, 0) + at(0, 0, 1) + at(0, 1, 0) + at(0, 1, 1)
                   + at(1, 0, 0) + at(1, 0, 1) + at(1, 1, 0) + at(1, 1, 1))

\* A _downsample_block in which nothing raises: a block that cannot be read
\* or written is passed over.
block_outcome_lenient(arr_in, arr_out, block_idx) ==
  LET shard_shape == arr_out.chunks
      isl == in_slice(block_idx, shard_shape, arr_in.shape)
      osl == out_slice(block_idx, shard_shape, arr_out.shape)
  IN  IF /\ block_aligned(block_idx, shard_shape)
         /\ SliceValid(isl, arr_in.shape)
         /\ ~SliceEmpty(isl)
         /\ SliceValid(osl, arr_out.shape)
         /\ reduced_shape(isl) = SliceShape(osl)
        THEN "write"
        ELSE "empty"

\* What _downsample_block does for a block: "fail" (the assertion, a read or
\* the write raises), "empty" (the block read is empty, so that nothing can be
\* written) or "write".
block_outcome(arr_in, arr_out, block_idx) ==
  LET shard_shape == arr_out.chunks
      isl == in_slice(block_idx, shard_shape, arr_in.shape)
      osl == out_slice(block_idx, shard_shape, arr_out.shape)
  IN  IF ~block_aligned(block_idx, shard_shape) THEN "fail"
      ELSE IF ~SliceValid(isl, arr_in.shape) THEN "fail"
      ELSE IF SliceEmpty(isl) THEN "empty"
      ELSE IF ~SliceValid(osl, arr_out.shape) THEN "fail"
      ELSE IF reduced_shape(isl) # SliceShape(osl) THEN "fail"
      ELSE "write"

\* The voxels of arr_out a block task writes (none unless it gets to write).
block_write_region(arr_in, arr_out, block_idx) ==
  IF block_outcome(arr_in, arr_out, block_idx) = "write"
    THEN Region(out_slice(block_idx, arr_out.chunks, arr_out.shape))
    ELSE {}

\* _downsample_block: the contents of arr_out after the block's write.
downsample_block_data(arr_in, arr_out, block_idx) ==
  LET isl == in_slice(block_idx, arr_out.chunks, arr_in.shape)
      osl == out_slice(block_idx, arr_out.chunks, arr_out.shape)
  IN  [c \in Coords(arr_out.shape) |->
         IF c \in Region(osl)
           THEN block_reduce(arr_in, isl, [a \in 1 .. 3 |-> c[a] - osl[a][1]])
           ELSE arr_out.data[c]]

\* -------------------------------------------------------------- state
VARIABLES
  path_exists,       \* whether the group's path exists on disk
  arrays,            \* the group's members: level -> array, or Absent
  attrs,             \* the group's attributes (the multiscale document)
  handle,            \* whether a MultiScaleGroup object has been constructed
  voxel_size,        \* self._voxel_size of the MultiScaleGroup
  name,              \* self._name
  spatial_unit,      \* self._spatial_unit
  pc,                \* where the orchestrator is: "idle", "copy", "downsample"
  op,                \* the call being run, or the last one run
  result,            \* how that call ended, "running" while it runs
  tasks,             \* the tasks handed to Parallel that have not run yet
  batch,             \* all tasks of the running (or the last) dispatch
  use_threads,       \* the process-wide blosc.use_threads
  blosc_use_threads, \* the local blosc_use_threads of the running call
  estimate,          \* the last memory_per_process call: its arguments and result
  rechunked,         \* the last _rechunk_to_even call: its image and result
  ncalls,            \* number of dispatches made on the group
  wcount,            \* per destination voxel, the writes of the last dispatch
  filled,            \* per level, the voxels that have been written
  sources            \* the input volumes that slabs have been dispatched from

vars ==
  <<path_exists, arrays, attrs, handle, voxel_size, name, spatial_unit, pc, op, result, tasks,
    batch, use_threads, blosc_use_threads, ncalls, wcount, filled, sources,
    estimate, rechunked>>

store == <<path_exists, arrays, attrs>>

\* The levels property: sorted(int(k) for k in self._group).
levels == {l \in Levels : arrays[l].present}

\* A Parallel that returns while jobs are still pending.
parallel_returns_early == TRUE

\* Parallel(n_jobs=n_processes)(jobs) returns once every job has run.
parallel_returns == tasks = {}

NoOp == [name |-> "none", level10 |-> 0, k |-> 0, nz |-> 0, z0 |-> 0, zchunk |-> 0]

\* The value of blosc.use_threads when the process starts: None (as -1).  The
\* calls set it to 0.
ThreadSettings == {-1}

\* No memory_per_process call has been made.
NoEstimate == [shape |-> <<0, 0, 0>>, dtype |-> "none", chunk_size |-> 0, bytes |-> 0]

\* No _rechunk_to_even call has been made.
NoRechunk == [shape |-> <<0, 0, 0>>, chunksize |-> <<0, 0, 0>>, even |-> <<0, 0, 0>>]

NoWrites == [c \in {} |-> 0]

Init ==
  /\ path_exists \in BOOLEAN
  /\ arrays = [l \in Levels |-> Absent]
  /\ attrs \in (IF path_exists THEN {NoAttrs, LegacyAttrs, LegacyOmeAttrs} ELSE {NoAttrs})
  /\ handle = FALSE
  /\ voxel_size = <<0, 0, 0>>
  /\ name = ""
  /\ spatial_unit = ""
  /\ pc = "idle"
  /\ op = NoOp
  /\ result = "none"
  /\ tasks = {}
  /\ batch = {}
  /\ use_threads \in ThreadSettings
  /\ blosc_use_threads = 0
  /\ ncalls = 0
  /\ wcount = NoWrites
  /\ filled = [l \in Levels |-> {}]
  /\ sources = {}
  /\ estimate = NoEstimate
  /\ rechunked = NoRechunk

\* ------------------------------------------------------- construction
\* A creation that writes the document and no array.
_create_zarr_group_without_array(array_spec, args) ==
  /\ path_exists' = TRUE
  /\ arrays' = arrays
  /\ attrs' = [ome |-> TRUE, name |-> args.name, unit |-> args.spatial_unit,
               datasets |-> <<new_dataset(args.voxel_size, 0)>>, multiscales |-> <<>>]

\* _create_zarr_group: Image.new(array_specs=[array_spec], paths=["0"], ...,
\* scales=[voxel_size], translations=[voxel_size / 2]).to_zarr(store).
_create_zarr_group(array_spec, args) ==
  /\ path_exists' = TRUE
  /\ arrays' = [arrays EXCEPT ![0] = NewArray(array_spec.shape, array_spec.chunks,
                                              array_spec.dtype, array_spec.compressors)]
  /\ attrs' = [ome |-> TRUE, name |-> args.name, unit |-> args.spatial_unit,
               datasets |-> <<new_dataset(args.voxel_size, 0)>>, multiscales |-> <<>>]

\* MultiScaleGroup.__init__ with an array_spec (has_spec) or without one.  The
\* object constructed replaces the one the caller held.
MultiScaleGroup(has_spec, array_spec, args) ==
  /\ pc = "idle"
  /\ op' = [NoOp EXCEPT !.name = "MultiScaleGroup"]
  /\ IF ~path_exists /\ ~has_spec
       THEN /\ result' = "ValueError: array_spec must be provided"
            /\ UNCHANGED <<store, handle, voxel_size, name, spatial_unit>>
       ELSE /\ result' = "ok"
            /\ handle' = TRUE
            /\ voxel_size' = args.voxel_size
            /\ name' = args.name
            /\ spatial_unit' = args.spatial_unit
            /\ IF ~path_exists
                 THEN _create_zarr_group(array_spec, args)
                 ELSE UNCHANGED store
  /\ UNCHANGED <<pc, tasks, batch, use_threads, blosc_use_threads, ncalls, wcount,
                 filled, sources>>
  /\ UNCHANGED <<estimate, rechunked>>

\* ----------------------------------------------------- add_full_res_data
\* An offset check that accepts every offset.
start_z_idx_unchecked(start_z_idx, chunk_size) == TRUE

\* start_z_idx % chunk_size == 0
start_z_idx_aligned(start_z_idx, chunk_size) == start_z_idx % chunk_size = 0

\* An input check that accepts every chunking.
chunking_unchecked(zchunk) == TRUE

\* data.chunksize[2] == 1
chunked_per_slice(zchunk) == zchunk = 1

\* The record of an add_full_res_data call: the input volume k, its z extent
\* nz and chunking zchunk, and start_z_idx (as z0, where the input starts).  A
\* call that raises before it looks at the data is recorded with k = nz = 0.
FullResCall(k, nz, start_z_idx, zchunk) ==
  [name |-> "add_full_res_data", level10 |-> 0, k |-> k, nz |-> nz,
   z0 |-> start_z_idx, zchunk |-> zchunk]

add_full_res_data(k, nz, start_z_idx, zchunk) ==
  /\ handle
  /\ pc = "idle"
  /\ ncalls < MaxCalls
  /\ IF ~arrays[0].present
       THEN /\ result' = "RuntimeError: Full resolution dataset not present"
            /\ op' = FullResCall(0, 0, start_z_idx, zchunk)
            /\ UNCHANGED <<pc, tasks, batch, use_threads, blosc_use_threads, ncalls,
                           wcount, sources>>
       ELSE LET chunk_size == arrays[0].chunks[1] IN
            IF ~start_z_idx_aligned(start_z_idx, chunk_size)
              THEN /\ result' = "ValueError: start_z_idx is not a multiple of chunk_size"
                   /\ op' = FullResCall(0, 0, start_z_idx, zchunk)
                   /\ UNCHANGED <<pc, tasks, batch, use_threads, blosc_use_threads, ncalls,
                                  wcount, sources>>
            ELSE IF ~chunked_per_slice(zchunk)
              THEN /\ result' = "ValueError: chunk size of 1 in the third dimension"
                   /\ op' = FullResCall(0, 0, start_z_idx, zchunk)
                   /\ UNCHANGED <<pc, tasks, batch, use_threads, blosc_use_threads, ncalls,
                                  wcount, sources>>
            ELSE /\ result' = "running"
                 /\ op' = FullResCall(k, nz, start_z_idx, zchunk)
                 /\ ncalls' = ncalls + 1
                 /\ pc' = "copy"
                 /\ tasks' = slab_args(nz, chunk_size, start_z_idx)
                 /\ batch' = slab_args(nz, chunk_size, start_z_idx)
                 /\ blosc_use_threads' = use_threads
                 /\ use_threads' = 0
                 /\ wcount' = [c \in Coords(arrays[0].shape) |-> 0]
                 /\ sources' = sources \cup {k}
  /\ UNCHANGED <<store, handle, voxel_size, name, spatial_unit, filled>>
  /\ UNCHANGED <<estimate, rechunked>>

\* One slab task of the dispatch runs: _copy_slab.  When it raises, Parallel
\* raises in add_full_res_data, which is left with the tasks not yet run dropped
\* and blosc.use_threads as it is.
_copy_slab(t) ==
  /\ pc = "copy"
  /\ t \in tasks
  /\ IF copy_slab_ok(arrays[0], t)
       THEN /\ arrays' = [arrays EXCEPT ![0].data = copy_slab_data(arrays[0], op, t)]
            /\ tasks' = tasks \ {t}
            /\ wcount' = [c \in DOMAIN wcount |->
                            IF c \in Region(slab_slice(arrays[0], t))
                              THEN wcount[c] + 1 ELSE wcount[c]]
            /\ filled' = [filled EXCEPT ![0] = @ \cup Region(slab_slice(arrays[0], t))]
            /\ UNCHANGED <<pc, result>>
       ELSE /\ pc' = "idle"
            /\ result' = "TaskError"
            /\ tasks' = {}
            /\ UNCHANGED <<arrays, wcount, filled>>
  /\ UNCHANGED <<path_exists, attrs, handle, voxel_size, name, spatial_unit, op, batch, use_threads,
                 blosc_use_threads, ncalls, sources>>
  /\ UNCHANGED <<estimate, rechunked>>

\* A return that leaves blosc.use_threads as the dispatch set it.
use_threads_left == use_threads

\* blosc.use_threads = blosc_use_threads: the value saved before the dispatch.
restored_use_threads == blosc_use_threads

\* A return that writes the document anew, with level 0 as its only dataset.
add_full_res_data_return_resets_metadata ==
  /\ pc = "copy"
  /\ parallel_returns
  /\ pc' = "idle"
  /\ result' = "ok"
  /\ use_threads' = restored_use_threads
  /\ attrs' = [attrs EXCEPT !.datasets = <<new_dataset(voxel_size, 0)>>]
  /\ UNCHANGED <<path_exists, arrays, handle, voxel_size, name, spatial_unit, op, tasks,
                 batch, blosc_use_threads, ncalls, wcount, filled, sources>>
  /\ UNCHANGED <<estimate, rechunked>>

\* Parallel has returned: add_full_res_data restores blosc.use_threads and returns.
add_full_res_data_return ==
  /\ pc = "copy"
  /\ parallel_returns
  /\ pc' = "idle"
  /\ result' = "ok"
  /\ use_threads' = restored_use_threads
  /\ UNCHANGED <<store, handle, voxel_size, name, spatial_unit, op, tasks, batch, blosc_use_threads,
                 ncalls, wcount, filled, sources>>
  /\ UNCHANGED <<estimate, rechunked>>

\* -------------------------------------------------- add_downsample_level
\* The level arguments tried, in tenths: -2, 0, 0.1, and 1 .. MaxLevel.
LevelArgs == {-20, 0, 1} \cup {10 * l : l \in 1 .. MaxLevel}

\* A level check that only asks for a positive number.
level_valid_positive(level10) == level10 > 0

\* level >= 1 and int(level) == level
level_valid(level10) == level10 >= 10 /\ level10 % 10 = 0

\* A membership test that never finds the level.
level_never_found(level) == FALSE

\* level_str in self._group
level_found(level) == level \in Levels /\ arrays[level].present

\* A membership test that finds any level below.
level_below_always_found(level) == TRUE

\* str(int(level) - 1) in self._group
level_below_found(level) == level - 1 \in Levels /\ arrays[level - 1].present

\* The insertion of dataset d into a list sorted by level, after the entries
\* of the same level (sorted() is stable).
RECURSIVE insert_by_level(_, _)
insert_by_level(ds, d) ==
  IF ds = <<>> THEN <<d>>
  ELSE IF d.path < Head(ds).path THEN <<d>> \o ds
  ELSE <<Head(ds)>> \o insert_by_level(Tail(ds), d)

\* A sort by decreasing level.
RECURSIVE sorted_by_level_reversed(_)
sorted_by_level_reversed(ds) ==
  IF ds = <<>> THEN <<>>
  ELSE LET i == CHOOSE j \in 1 .. Len(ds) : \A m \in 1 .. Len(ds) : ds[m].path <= ds[j].path
       IN  <<ds[i]>> \o sorted_by_level_reversed(
             [m \in 1 .. Len(ds) - 1 |-> IF m < i THEN ds[m] ELSE ds[m + 1]])

\* sorted(datasets, key=get_level)
RECURSIVE sorted_by_level(_)
sorted_by_level(ds) ==
  IF ds = <<>> THEN <<>>
  ELSE insert_by_level(sorted_by_level(SubSeq(ds, 1, Len(ds) - 1)), ds[Len(ds)])

\* The datasets list after _add_level_metadata(level).
_add_level_metadata(datasets, vs, level) ==
  IF \E i \in 1 .. Len(datasets) : datasets[i].path = level
    THEN datasets
    ELSE sorted_by_level(Append(datasets, new_dataset(vs, level)))

\* A sink array with the element type float64.
create_array_float64(source_arr) ==
  NewArray(new_shape(source_arr.shape), source_arr.chunks, "float64",
           source_arr.compressors)

\* self._group.create_array(name=level_str, shape=new_shape,
\* chunks=source_arr.chunks, dtype=source_arr.dtype,
\* compressors=source_arr.compressors, ...)
create_array(source_arr) ==
  NewArray(new_shape(source_arr.shape), source_arr.chunks, source_arr.dtype,
           source_arr.compressors)

add_downsample_level(level10) ==
  /\ handle
  /\ pc = "idle"
  /\ ncalls < MaxCalls
  /\ op' = [NoOp EXCEPT !.name = "add_downsample_level", !.level10 = level10]
  /\ LET level == level10 \div 10 IN
     IF ~level_valid(level10)
       THEN /\ result' = "ValueError: level must be an integer >= 1"
            /\ UNCHANGED <<arrays, pc, tasks, batch, use_threads, blosc_use_threads, ncalls, wcount>>
     ELSE IF level_found(level)
       THEN /\ result' = "RuntimeError: Level already found in zarr group"
            /\ UNCHANGED <<arrays, pc, tasks, batch, use_threads, blosc_use_threads, ncalls, wcount>>
     ELSE IF ~level_below_found(level)
       THEN /\ result' = "RuntimeError: Level below not present in group"
            /\ UNCHANGED <<arrays, pc, tasks, batch, use_threads, blosc_use_threads, ncalls, wcount>>
     ELSE LET source_arr == arrays[level - 1]
              chunk_size == source_arr.chunks[1]
              sink_arr == create_array(source_arr)
              all_args == {[block_idx |-> b] :
                             b \in block_indices(source_arr.shape, chunk_size)}
          IN  /\ result' = "running"
              /\ ncalls' = ncalls + 1
              /\ pc' = "downsample"
              /\ arrays' = [arrays EXCEPT ![level] = sink_arr]
              /\ tasks' = all_args
              /\ batch' = all_args
              /\ blosc_use_threads' = use_threads
              /\ use_threads' = 0
              /\ wcount' = [c \in Coords(sink_arr.shape) |-> 0]
  /\ UNCHANGED <<path_exists, attrs, handle, voxel_size, name, spatial_unit, filled, sources>>
  /\ UNCHANGED <<estimate, rechunked>>

\* One block task of the dispatch runs: _downsample_block.  A block whose read
\* is empty has nothing to reduce: block_reduce either raises on it or yields an
\* empty block, whose write changes nothing.
_downsample_block(t) ==
  /\ pc = "downsample"
  /\ t \in tasks
  /\ LET level == op.level10 \div 10
         arr_in == arrays[level - 1]
         arr_out == arrays[level]
         outcome == block_outcome(arr_in, arr_out, t.block_idx)
         region == block_write_region(arr_in, arr_out, t.block_idx)
     IN  \/ /\ outcome = "write"
            /\ arrays' = [arrays EXCEPT ![level].data =
                            downsample_block_data(arr_in, arr_out, t.block_idx)]
            /\ tasks' = tasks \ {t}
            /\ wcount' = [c \in DOMAIN wcount |->
                            IF c \in region THEN wcount[c] + 1 ELSE wcount[c]]
            /\ filled' = [filled EXCEPT ![level] = @ \cup region]
            /\ UNCHANGED <<pc, result>>
         \/ /\ outcome = "empty"
            /\ tasks' = tasks \ {t}
            /\ UNCHANGED <<arrays, wcount, filled, pc, result>>
         \/ /\ outcome \in {"fail", "empty"}
            /\ pc' = "idle"
            /\ result' = "TaskError"
            /\ tasks' = {}
            /\ UNCHANGED <<arrays, wcount, filled>>
  /\ UNCHANGED <<path_exists, attrs, handle, voxel_size, name, spatial_unit, op, batch, use_threads,
                 blosc_use_threads, ncalls, sources>>
  /\ UNCHANGED <<estimate, rechunked>>

\* Parallel has returned: add_downsample_level records the level's metadata,
\* restores blosc.use_threads and returns.  Without the "ome" attribute the
\* metadata lookup raises and the flag is left as it is.
\* _add_level_metadata takes the document from attrs["ome"]["multiscales"][0],
\* changes that object and stores it under the top-level key "multiscales".
\* When the level is listed already it returns before the store.  Whether the
\* change also reaches the stored "ome" document depends on whether attrs
\* hands out its own object (live) or a copy.
add_downsample_level_return ==
  /\ pc = "downsample"
  /\ parallel_returns
  /\ pc' = "idle"
  /\ IF attrs.ome
       THEN /\ LET level == op.level10 \div 10
                   listed == \E i \in 1 .. Len(attrs.datasets) :
                               attrs.datasets[i].path = level
                   datasets == _add_level_metadata(attrs.datasets, voxel_size, level)
               IN  IF listed
                     THEN attrs' = attrs
                     ELSE \E live \in BOOLEAN :
                            attrs' = [attrs EXCEPT
                                        !.datasets = IF live THEN datasets ELSE @,
                                        !.multiscales = <<datasets>>]
            /\ use_threads' = restored_use_threads
            /\ result' = "ok"
       ELSE /\ result' = "KeyError: ome"
            /\ UNCHANGED <<attrs, use_threads>>
  /\ UNCHANGED <<path_exists, arrays, handle, voxel_size, name, spatial_unit, op, tasks, batch,
                 blosc_use_threads, ncalls, wcount, filled, sources>>
  /\ UNCHANGED <<estimate, rechunked>>

\* ------------------------------------------------- open_multiscale_group
\* The translation of the first dataset, read in place of its scale.
stored_translation == attrs.datasets[1].coordinateTransformations[2].v

\* transforms = multiscales["datasets"][0]["coordinateTransformations"];
\* voxel_size = transforms[0]["scale"]
stored_voxel_size == attrs.datasets[1].coordinateTransformations[1].v

\* Reads name, voxel size (the first transform's scale of the first dataset)
\* and unit from the "ome" attribute and constructs a MultiScaleGroup on the
\* existing path.
open_multiscale_group ==
  /\ pc = "idle"
  /\ path_exists
  /\ op' = [NoOp EXCEPT !.name = "open_multiscale_group"]
  /\ IF ~attrs.ome
       THEN /\ result' = "KeyError: ome"
            /\ UNCHANGED <<handle, voxel_size, name, spatial_unit>>
     ELSE IF attrs.datasets[1].coordinateTransformations[1].type # "scale"
       THEN /\ result' = "KeyError: scale"
            /\ UNCHANGED <<handle, voxel_size, name, spatial_unit>>
     ELSE /\ result' = "ok"
          /\ handle' = TRUE
          /\ voxel_size' = stored_voxel_size
          /\ name' = attrs.name
          /\ spatial_unit' = attrs.unit
  /\ UNCHANGED <<store, pc, tasks, batch, use_threads, blosc_use_threads, ncalls,
                 wcount, filled, sources>>
  /\ UNCHANGED <<estimate, rechunked>>

\* ---------------------------------------------------------------- spec
\* The z extents an input array may have: up to that of level 0.
InputNz == 1 .. (IF arrays[0].present THEN arrays[0].shape[3] ELSE 1)

\* The start_z_idx values tried: the z indices of level 0.
InputStart == 0 .. (IF arrays[0].present THEN arrays[0].shape[3] - 1 ELSE 0)

\* The array_spec arguments tried: on an existing path the constructor does
\* not look at the array_spec, and one stands for all.
SpecArgs ==
  IF path_exists THEN {s \in ArraySpecs : s.shape = <<1, 1, 1>> /\ s.chunks = <<1, 1, 1>>}
  ELSE ArraySpecs

Next ==
  \/ \E has_spec \in BOOLEAN, array_spec \in SpecArgs, args \in GroupArgs :
       MultiScaleGroup(has_spec, array_spec, args)
  \/ open_multiscale_group
  \/ \E k \in 1 .. NPatterns, nz \in InputNz, start_z_idx \in InputStart,
        zchunk \in {1, 2} :
       add_full_res_data(k, nz, start_z_idx, zchunk)
  \/ \E t \in tasks : _copy_slab(t)
  \/ add_full_res_data_return
  \/ \E level10 \in LevelArgs : add_downsample_level(level10)
  \/ \E t \in tasks : _downsample_block(t)
  \/ add_downsample_level_return

Spec == Init /\ [][Next]_vars

\* ------------------------------------------------------ memory estimate
\* np.dtype(input_data.dtype).itemsize
itemsize(dtype) ==
  CASE dtype = "uint8" -> 1
    [] dtype = "uint16" -> 2
    [] dtype = "int32" -> 4
    [] dtype = "float64" -> 8

\* An estimate of the size of the whole input array.
memory_of_array(input_data, chunk_size) ==
  input_data.shape[1] * input_data.shape[2] * input_data.shape[3]
    * itemsize(input_data.dtype)

\* memory_per_process: shape[0] * shape[1] * itemsize * chunk_size.
memory_per_process(input_data, chunk_size) ==
  input_data.shape[1] * input_data.shape[2] * itemsize(input_data.dtype) * chunk_size

\* The input arrays of the estimate: every small shape, and the array of the
\* tests, of shape (583, 245, 156), with one and with all of its slices.
EstimateShapes == Shapes \cup {<<583, 245, 156>>, <<583, 245, 1>>}

EstimateInputs ==
  {[shape |-> s, dtype |-> d] :
     s \in EstimateShapes, d \in {"uint8", "uint16", "int32", "float64"}}

\* The chunk sizes of the estimate: the small ones, and 64 as in the tests.
EstimateChunks == ChunkSizes \cup {64}

\* A call of memory_per_process(input_data, chunk_size=chunk_size).
memory_per_process_call(input_data, chunk_size) ==
  /\ estimate' = [shape |-> input_data.shape, dtype |-> input_data.dtype,
                  chunk_size |-> chunk_size,
                  bytes |-> memory_per_process(input_data, chunk_size)]
  /\ UNCHANGED <<path_exists, arrays, attrs, handle, voxel_size, name, spatial_unit,
                 pc, op, result, tasks, batch, use_threads, blosc_use_threads, ncalls,
                 wcount, filled, sources, rechunked>>

NextEstimate ==
  \E input_data \in EstimateInputs, chunk_size \in EstimateChunks :
    memory_per_process_call(input_data, chunk_size)

\* The function memory_per_process on its own: it neither reads nor changes
\* a group.
SpecEstimate == Init /\ [][NextEstimate]_vars

\* ----------------------------------------------------- even rechunking
\* np.round(c * 0.5): c / 2 rounded to the nearest integer, a half to the
\* even neighbour.
np_round_half(c) ==
  IF c % 2 = 0 THEN c \div 2
  ELSE IF ((c - 1) \div 2) % 2 = 0 THEN (c - 1) \div 2
  ELSE (c + 1) \div 2

\* even_chunksize of _rechunk_to_even:
\* np.maximum(1, np.round(chunksize * factors) / factors).astype(int), with
\* factors 0.5 on each axis.
even_chunksize(chunksize) ==
  [a \in 1 .. 3 |->
     IF 2 * np_round_half(chunksize[a]) >= 1 THEN 2 * np_round_half(chunksize[a]) ELSE 1]

\* image.rechunk(chunks).chunksize: no chunk is longer than its axis.
rechunk_chunksize(shape, chunks) == [a \in 1 .. 3 |-> Min(chunks[a], shape[a])]

\* The chunk sizes tried on each axis: the small ones, and 63 and 64 as in the
\* tests.
RechunkSizes == (1 .. MaxRechunk) \cup {63, 64}

\* The images tried: that of the tests, of shape (583, 245, 156), in every
\* chunking with the sizes above, and an image of shape (3, 3, 3) in every
\* chunking it can have.
RechunkImages ==
  {[shape |-> <<583, 245, 156>>, chunksize |-> <<cx, cy, cz>>] :
     cx \in RechunkSizes, cy \in RechunkSizes, cz \in RechunkSizes}
  \cup {[shape |-> <<3, 3, 3>>, chunksize |-> <<cx, cy, cz>>] :
           cx \in 1 .. 3, cy \in 1 .. 3, cz \in 1 .. 3}

\* A call of _rechunk_to_even(image).
_rechunk_to_even(image) ==
  /\ rechunked' = [shape |-> image.shape, chunksize |-> image.chunksize,
                   even |-> rechunk_chunksize(image.shape, even_chunksize(image.chunksize))]
  /\ UNCHANGED <<path_exists, arrays, attrs, handle, voxel_size, name, spatial_unit,
                 pc, op, result, tasks, batch, use_threads, blosc_use_threads, ncalls,
                 wcount, filled, sources, estimate>>

NextRechunk == \E image \in RechunkImages : _rechunk_to_even(image)

\* The function _rechunk_to_even on its own: it neither reads nor changes a
\* group.
SpecRechunk == Init /\ [][NextRechunk]_vars

\* ============================================================== claims
\* The level an add_downsample_level call is about.
OpLevel == op.level10 \div 10

\* An add_full_res_data call has returned normally.
FullResReturned == pc = "idle" /\ op.name = "add_full_res_data" /\ result = "ok"

\* An add_downsample_level call has returned normally.
DownsampleReturned == pc = "idle" /\ op.name = "add_downsample_level" /\ result = "ok"

\* n = ceil(m / 2)
IsCeilHalf(n, m) == m <= 2 * n /\ 2 * n <= m + 1

\* C1: after add_full_res_data(V, start_z_idx = 0) has returned without a task
\* failure, every voxel (x, y, z) of level 0 within the extent of V equals
\* V[x, y, z].
C1_RoundTripIngestion ==
  (FullResReturned /\ op.z0 = 0) =>
    \A c \in Coords(<<arrays[0].shape[1], arrays[0].shape[2], op.nz>>) :
      arrays[0].data[c] = Volume(op.k, c[1], c[2], c[3])

\* C1 witness: a full-extent copy of 3 slices in two slabs (C = 2, the last
\* slab shorter) has returned.
C1_Witness ==
  /\ FullResReturned
  /\ op.z0 = 0
  /\ op.nz = 3
  /\ arrays[0].shape[3] = 3
  /\ arrays[0].chunks[1] = 2
  /\ Cardinality(batch) = 2

\* The nominal destination region of block task t of the running dispatch.
BlockOutRegion(t) ==
  Region(out_slice(t.block_idx, arrays[OpLevel].chunks, arrays[OpLevel].shape))

\* C2: the block tasks dispatched by one add_downsample_level call tile the
\* destination array: their write regions cover every destination voxel (no
\* gaps) and no two of them intersect (no overlap).
C2_BlockTiling ==
  pc = "downsample" =>
    /\ UNION {BlockOutRegion(t) : t \in batch} = Coords(arrays[OpLevel].shape)
    /\ \A t1, t2 \in batch : t1 # t2 => BlockOutRegion(t1) \cap BlockOutRegion(t2) = {}

\* The mean, truncated, of the 8 samples of src at (2x+dx, 2y+dy, 2z+dz), an
\* index past the end of an axis replaced by the last index of the axis.
LocalMean(src, c) ==
  LET ix(a, d) == Min(2 * c[a] + d, src.shape[a] - 1)
      at(dx, dy, dz) == src.data[<<ix(1, dx), ix(2, dy), ix(3, dz)>>]
      sum == at(0, 0, 0) + at(0, 0, 1) + at(0, 1, 0) + at(0, 1, 1)
             + at(1, 0, 0) + at(1, 0, 1) + at(1, 1, 0) + at(1, 1, 1)
  IN  IF sum >= 0 THEN sum \div 8 ELSE 0 - ((0 - sum) \div 8)

\* Level 0 holds the test volume of the given x extent (2: arange(8) as
\* (2, 2, 2); 3: with [[10, 10], [12, 16]] appended), in chunks of (1, 1, 1).
Level0IsKnownData(nx) ==
  /\ arrays[0].present
  /\ arrays[0].shape = <<nx, 2, 2>>
  /\ arrays[0].chunks = <<1, 1, 1>>
  /\ \A c \in Coords(arrays[0].shape) : arrays[0].data[c] = KnownData(c[1], c[2], c[3])

\* C3: after add_downsample_level(i) every voxel of level i is the truncated
\* mean of its 2x2x2 samples of level i-1, with edge replication; in particular
\* add_downsample_level(1) on arange(8).reshape(2,2,2) gives [[[3]]], and on the
\* volume with the slice [[10,10],[12,16]] appended it gives [[[3]],[[12]]].
C3_DownsampleValues ==
  /\ DownsampleReturned =>
       \A c \in Coords(arrays[OpLevel].shape) :
         arrays[OpLevel].data[c] = LocalMean(arrays[OpLevel - 1], c)
  /\ (pc = "idle" /\ op.name = "add_downsample_level" /\ op.level10 = 10
      /\ Level0IsKnownData(2)) =>
       /\ result = "ok"
       /\ arrays[1].shape = <<1, 1, 1>>
       /\ arrays[1].data[<<0, 0, 0>>] = 3
  /\ (pc = "idle" /\ op.name = "add_downsample_level" /\ op.level10 = 10
      /\ Level0IsKnownData(3)) =>
       /\ result = "ok"
       /\ arrays[1].shape = <<2, 1, 1>>
       /\ arrays[1].data[<<0, 0, 0>>] = 3
       /\ arrays[1].data[<<1, 0, 0>>] = 12

\* C4: every level i >= 1 in the group has, on each axis, the extent
\* ceil(extent of level i-1 / 2); (583, 245, 156) halves to (292, 123, 78).
C4_ShapeHalving ==
  /\ \A l \in levels \ {0} : \A a \in 1 .. 3 :
       IsCeilHalf(arrays[l].shape[a], arrays[l - 1].shape[a])
  /\ new_shape(<<583, 245, 156>>) = <<292, 123, 78>>
  /\ _half_shape(<<583, 245, 156>>) = <<292, 123, 78>>
  /\ _half_shape(<<64, 64, 64>>) = <<32, 32, 32>>

\* C4 witness: two levels added below a level 0 of odd extent 5: the rounding
\* compounds, 5 -> 3 -> 2.
C4_Witness ==
  /\ levels = {0, 1, 2}
  /\ arrays[0].shape[1] = 5
  /\ arrays[1].shape[1] = 3
  /\ arrays[2].shape[1] = 2

\* C5: the levels in the group are {0, ..., n} for some n, or none.
C5_LevelContiguity ==
  \/ levels = {}
  \/ \E n \in Levels : levels = 0 .. n

\* C5 witness: levels 0 and 1 are present after a failed attempt to add
\* level 3 above the gap.
C5_Witness ==
  /\ levels = {0, 1}
  /\ op.name = "add_downsample_level"
  /\ op.level10 = 30
  /\ result = "RuntimeError: Level below not present in group"

\* C6 (as claimed): while block tasks of add_downsample_level(i+1) are in
\* flight, every voxel of level i has been written.
C6_PhaseBarrier ==
  pc = "downsample" => filled[OpLevel - 1] = Coords(arrays[OpLevel - 1].shape)

\* C6 (amended): a call returns only when every task of its dispatch has ended,
\* and a call is only made when no call is running; so while block tasks of
\* add_downsample_level(i+1) are pending, the array of level i exists and no
\* task that writes level i is pending: the pending tasks are blocks of this
\* dispatch, which write level i+1 alone.  (Level i need not be complete.)
C6_PhaseBarrierAmended ==
  /\ pc = "idle" => tasks = {}
  /\ (result = "running") <=> (pc # "idle")
  /\ tasks \subseteq batch
  /\ pc = "downsample" =>
       /\ OpLevel >= 1
       /\ arrays[OpLevel - 1].present
       /\ arrays[OpLevel].present
       /\ \A t \in tasks :
            t.block_idx \in block_indices(arrays[OpLevel - 1].shape,
                                          arrays[OpLevel - 1].chunks[1])
  /\ pc = "copy" => \A t \in tasks : t.zstart = t.zmin + op.z0

\* C6 witness: a block task of add_downsample_level(2) has run, reading a
\* level 1 that an earlier dispatch has written to.
C6_Witness ==
  /\ pc = "downsample"
  /\ OpLevel = 2
  /\ tasks # batch
  /\ filled[1] # {}
  /\ filled[2] # {}

\* The array the tasks of the running dispatch write to.
DispatchDest == IF pc = "copy" THEN arrays[0] ELSE arrays[OpLevel]

\* The destination slices of task t of the running dispatch.
TaskSlice(t) ==
  IF pc = "copy"
    THEN slab_slice(arrays[0], t)
    ELSE out_slice(t.block_idx, arrays[OpLevel].chunks, arrays[OpLevel].shape)

\* The storage chunks of the destination that hold a voxel of task t's region.
TaskChunks(t) ==
  {[a \in 1 .. 3 |-> c[a] \div DispatchDest.chunks[a]] : c \in Region(TaskSlice(t))}

\* C7: among the tasks of one dispatch (slabs or blocks), every task's write
\* region starts on a chunk boundary of the destination and no two tasks write
\* to the same storage chunk.
C7_WriteDisjointness ==
  pc \in {"copy", "downsample"} =>
    /\ \A t \in batch : \A a \in 1 .. 3 :
         TaskSlice(t)[a][1] % DispatchDest.chunks[a] = 0
    /\ \A t1, t2 \in batch : t1 # t2 => TaskChunks(t1) \cap TaskChunks(t2) = {}

\* C7 witness: two block tasks of one dispatch that each write a chunk, one of
\* which has run.
C7_Witness ==
  /\ pc = "downsample"
  /\ tasks # batch
  /\ tasks # {}
  /\ \E t1, t2 \in batch : t1 # t2 /\ TaskChunks(t1) # {} /\ TaskChunks(t2) # {}

\* C8: once add_full_res_data over the full z range from start_z_idx = 0 has
\* returned, a second such call raises and leaves level 0 as it was.
C8_IdempotenceGuard ==
  [][ ( /\ FullResReturned
        /\ op.z0 = 0
        /\ op.nz = arrays[0].shape[3]
        /\ op'.name = "add_full_res_data"
        /\ op'.z0 = 0
        /\ op'.zchunk = 1 )
      => ( /\ pc' = "idle"
           /\ result' \notin {"ok", "running"}
           /\ arrays' = arrays ) ]_vars

\* C9: add_downsample_level(level), level an integer >= 1, called when
\* level-1 is not in the group raises the level-below-missing RuntimeError,
\* creates no array, dispatches nothing and leaves levels and metadata alone.
C9_LevelGapGuard ==
  [][ ( /\ pc = "idle"
        /\ op'.name = "add_downsample_level"
        /\ op'.level10 >= 10
        /\ op'.level10 % 10 = 0
        /\ ~arrays[(op'.level10 \div 10) - 1].present
        /\ <<op', result'>> # <<op, result>> )
      => ( /\ result' = "RuntimeError: Level below not present in group"
           /\ pc' = "idle"
           /\ tasks' = {}
           /\ arrays' = arrays
           /\ attrs' = attrs ) ]_vars

\* C9 witness: add_downsample_level(2) has been refused on a group that holds
\* level 0 only.
C9_Witness ==
  /\ levels = {0}
  /\ op.name = "add_downsample_level"
  /\ op.level10 = 20
  /\ result = "RuntimeError: Level below not present in group"

\* C10: add_downsample_level(level) called when level is already in the group
\* raises the already-found RuntimeError, dispatches nothing and leaves that
\* array, the levels and the metadata alone.
C10_AlreadyPresentGuard ==
  [][ ( /\ pc = "idle"
        /\ op'.name = "add_downsample_level"
        /\ op'.level10 >= 10
        /\ op'.level10 % 10 = 0
        /\ arrays[op'.level10 \div 10].present
        /\ <<op', result'>> # <<op, result>> )
      => ( /\ result' = "RuntimeError: Level already found in zarr group"
           /\ pc' = "idle"
           /\ tasks' = {}
           /\ arrays' = arrays
           /\ attrs' = attrs ) ]_vars

\* C10 witness: add_downsample_level(1) has been refused on a group that
\* already holds level 1.
C10_Witness ==
  /\ levels = {0, 1}
  /\ op.name = "add_downsample_level"
  /\ op.level10 = 10
  /\ result = "RuntimeError: Level already found in zarr group"

\* C11: add_downsample_level(level) with a level that is not an integer or is
\* below 1 (0.1, -2, 0) raises the invalid-level ValueError whatever levels the
\* group holds, creates no array, dispatches nothing and leaves the levels and
\* the metadata alone.
C11_InvalidLevelGuard ==
  [][ ( /\ pc = "idle"
        /\ op'.name = "add_downsample_level"
        /\ ~(op'.level10 >= 10 /\ op'.level10 % 10 = 0)
        /\ <<op', result'>> # <<op, result>> )
      => ( /\ result' = "ValueError: level must be an integer >= 1"
           /\ pc' = "idle"
           /\ tasks' = {}
           /\ arrays' = arrays
           /\ attrs' = attrs ) ]_vars

\* C11 witness: add_downsample_level(0.1) has been refused on a group that
\* holds levels 0 and 1.
C11_Witness ==
  /\ levels = {0, 1}
  /\ op.name = "add_downsample_level"
  /\ op.level10 = 1
  /\ result = "ValueError: level must be an integer >= 1"

\* C12: add_full_res_data with a start_z_idx that is not a multiple of the
\* chunk size of level 0 raises the ValueError of the offset check, dispatches
\* no slab task and leaves level 0 (and every other array) as it was.
C12_OffsetAlignmentGuard ==
  [][ ( /\ pc = "idle"
        /\ op'.name = "add_full_res_data"
        /\ arrays[0].present
        /\ op'.z0 % arrays[0].chunks[1] # 0
        /\ <<op', result'>> # <<op, result>> )
      => ( /\ result' = "ValueError: start_z_idx is not a multiple of chunk_size"
           /\ pc' = "idle"
           /\ tasks' = {}
           /\ arrays' = arrays ) ]_vars

\* C12 witness: start_z_idx = 1 has been refused on a level 0 with chunks of 2
\* that an earlier call has written to.
C12_Witness ==
  /\ op.name = "add_full_res_data"
  /\ op.z0 = 1
  /\ arrays[0].chunks[1] = 2
  /\ filled[0] # {}
  /\ result = "ValueError: start_z_idx is not a multiple of chunk_size"

\* C13: add_full_res_data with an input whose chunk size along z is not 1
\* raises a ValueError (that of the chunking check when start_z_idx is aligned),
\* dispatches no slab task and leaves level 0 as it was.
C13_InputChunkingGuard ==
  [][ ( /\ pc = "idle"
        /\ op'.name = "add_full_res_data"
        /\ arrays[0].present
        /\ op'.zchunk # 1
        /\ <<op', result'>> # <<op, result>> )
      => ( /\ result' = IF op'.z0 % arrays[0].chunks[1] = 0
                          THEN "ValueError: chunk size of 1 in the third dimension"
                          ELSE "ValueError: start_z_idx is not a multiple of chunk_size"
           /\ pc' = "idle"
           /\ tasks' = {}
           /\ arrays' = arrays ) ]_vars

\* C13 witness: an input chunked by 2 along z has been refused on a level 0
\* that an earlier call has written to.
C13_Witness ==
  /\ op.name = "add_full_res_data"
  /\ op.zchunk = 2
  /\ filled[0] # {}
  /\ result = "ValueError: chunk size of 1 in the third dimension"

\* C14: every input array of the model is the sub-volume of an input volume V
\* that starts at z = start_z_idx, and start_z_idx is a multiple of C in every
\* call that dispatches.  (a) Once slabs of one volume V only have been
\* dispatched and every voxel of level 0 has been written, level 0 equals V, in
\* whatever order the calls were made and their slabs ran.  (b) A slab task of
\* a call changes no voxel of level 0 outside the call's z range
\* [start_z_idx, start_z_idx + nz).
C14_MultiInvocationIngestion ==
  /\ [](\A k \in 1 .. NPatterns :
          (sources = {k} /\ filled[0] = Coords(arrays[0].shape)) =>
            \A c \in Coords(arrays[0].shape) :
              arrays[0].data[c] = Volume(k, c[1], c[2], c[3]))
  /\ [][ pc = "copy" =>
           \A c \in Coords(arrays[0].shape) :
             (c[3] < op.z0 \/ c[3] >= op.z0 + op.nz) =>
               arrays'[0].data[c] = arrays[0].data[c] ]_vars

\* C14 witness: a level 0 of 3 slices in chunks of 2 is complete after two
\* calls on the same volume, the second of which, with start_z_idx = 0, wrote
\* slices 0 and 1 only: slice 2 was written by the first call.
C14_Witness ==
  /\ FullResReturned
  /\ ncalls = 2
  /\ sources = {1}
  /\ arrays[0].shape[3] = 3
  /\ arrays[0].chunks[1] = 2
  /\ op.z0 = 0
  /\ op.nz = 2
  /\ filled[0] = Coords(arrays[0].shape)
  /\ \A c \in Coords(arrays[0].shape) : wcount[c] = (IF c[3] < 2 THEN 1 ELSE 0)

\* The datasets lists the group's attributes hold: that of the "ome" document
\* and that of the top-level "multiscales" key.
StoredDatasets ==
  (IF attrs.ome THEN {attrs.datasets} ELSE {})
    \cup {attrs.multiscales[i] : i \in 1 .. Len(attrs.multiscales)}

\* The levels a datasets list names.
ListedLevels(ds) == {ds[i].path : i \in 1 .. Len(ds)}

\* C15: the datasets list of the persisted multiscale document is sorted by
\* strictly increasing level, so that no level is listed twice.
C15_MetadataOrdering ==
  \A ds \in StoredDatasets :
    \A i, j \in 1 .. Len(ds) : i < j => ds[i].path < ds[j].path

\* C15 witness: levels 1 and 2 have been recorded after level 0.
C15_Witness ==
  /\ DownsampleReturned
  /\ attrs.ome
  /\ Len(attrs.datasets) = 3
  /\ ListedLevels(attrs.datasets) = {0, 1, 2}

\* C16: after an add_full_res_data or add_downsample_level call has returned
\* without error, the levels listed in the persisted multiscale document (the
\* one under "ome", which open_multiscale_group reads) are the levels of the
\* group.
C16_LevelsMetadataConsistency ==
  (pc = "idle" /\ result = "ok" /\ op.name \in {"add_full_res_data", "add_downsample_level"})
    => (attrs.ome /\ ListedLevels(attrs.datasets) = levels)

\* C17: in a group created by the constructor, every entry of the document is
\* [scale, translation] with scale = voxel_size * 2^level and translation =
\* scale / 2, voxel_size being the scale recorded for level 0; for (3, 4, 5)
\* level 0 is (3, 4, 5) / (1.5, 2, 2.5) and level 1 is (6, 8, 10) / (3, 4, 5)
\* (all in units of one half here).
C17_PerLevelTransform ==
  /\ arrays[0].present =>
       \A ds \in StoredDatasets : \A i \in 1 .. Len(ds) :
         ds[i] = new_dataset(ds[1].coordinateTransformations[1].v, ds[i].path)
  /\ new_dataset(<<6, 8, 10>>, 0).coordinateTransformations
       = << [type |-> "scale", v |-> <<6, 8, 10>>],
            [type |-> "translation", v |-> <<3, 4, 5>>] >>
  /\ new_dataset(<<6, 8, 10>>, 1).coordinateTransformations
       = << [type |-> "scale", v |-> <<12, 16, 20>>],
            [type |-> "translation", v |-> <<6, 8, 10>>] >>

\* A datasets list with an entry whose translation comes before its scale.
Malformed(ds) ==
  \E i \in 1 .. Len(ds) : ds[i].coordinateTransformations[1].type = "translation"

\* The canonical form of a datasets list: [scale, translation], the scale
\* kept and the translation the product of the stored translation and the scale
\* (in units of one half: t * s / 2).
Repaired(ds) ==
  [i \in 1 .. Len(ds) |->
     IF ds[i].coordinateTransformations[1].type = "translation"
       THEN LET t == ds[i].coordinateTransformations[1].v
                sc == ds[i].coordinateTransformations[2].v
            IN  [path |-> ds[i].path,
                 coordinateTransformations |->
                   << [type |-> "scale", v |-> sc],
                      [type |-> "translation",
                       v |-> [a \in 1 .. 3 |-> (t[a] * sc[a]) \div 2]] >>]
       ELSE ds[i]]

\* C18: open_multiscale_group on a group whose document lists translation
\* before scale returns a group and leaves the document rewritten in the order
\* [scale, translation], the translation multiplied by the scale.
C18_MetadataOrderRepair ==
  [][ ( /\ pc = "idle"
        /\ op'.name = "open_multiscale_group"
        /\ \E ds \in StoredDatasets : Malformed(ds)
        /\ <<op', result'>> # <<op, result>> )
      => ( /\ result' = "ok"
           /\ \A ds \in StoredDatasets' : ~Malformed(ds)
           /\ StoredDatasets' = {Repaired(ds) : ds \in StoredDatasets} ) ]_vars

\* C19: the constructor called on a location that holds a group with data
\* raises and leaves the location as it was.
C19_CreateConflict ==
  [][ ( /\ pc = "idle"
        /\ path_exists
        /\ levels # {}
        /\ op.name # "MultiScaleGroup"
        /\ op'.name = "MultiScaleGroup" )
      => ( /\ result' # "ok"
           /\ store' = store ) ]_vars

C21_LevelZeroCreation ==
  [][ ( /\ pc = "idle"
        /\ ~arrays[0].present
        /\ op'.name = "add_full_res_data"
        /\ op'.z0 = 0
        /\ op'.zchunk = 1
        /\ <<op', result'>> # <<op, result>> )
      => ( /\ arrays'[0].present
           /\ result' = "running"
           /\ tasks' # {} ) ]_vars

\* C22: (a) open_multiscale_group on a group that the constructor created
\* returns a MultiScaleGroup with the name, the spatial unit and the voxel size
\* (the scale of level 0) of the document, and changes neither the levels nor
\* the document; (b) the constructor writes its name, spatial unit and voxel
\* size into the document it creates; (c) no step changes the name, the unit or
\* the level-0 entry of an existing document.  So the group returned has the
\* name, unit and voxel size the group was created with.
C22_OpenRoundTrip ==
  /\ [][ ( /\ pc = "idle"
           /\ arrays[0].present
           /\ op'.name = "open_multiscale_group"
           /\ <<op', result'>> # <<op, result>> )
         => ( /\ result' = "ok"
              /\ handle'
              /\ name' = attrs.name
              /\ spatial_unit' = attrs.unit
              /\ voxel_size' = attrs.datasets[1].coordinateTransformations[1].v
              /\ arrays' = arrays
              /\ attrs' = attrs
              /\ levels' = levels ) ]_vars
  /\ [][ (~path_exists /\ path_exists')
         => ( /\ attrs'.ome
              /\ attrs'.name = name'
              /\ attrs'.unit = spatial_unit'
              /\ attrs'.datasets[1] = new_dataset(voxel_size', 0) ) ]_vars
  /\ [][ (path_exists /\ attrs.ome)
         => ( /\ attrs'.ome
              /\ attrs'.name = attrs.name
              /\ attrs'.unit = attrs.unit
              /\ attrs'.datasets[1] = attrs.datasets[1] ) ]_vars

\* C22 witness: a group created as "other_group" in micrometer with voxel size
\* (1, 1, 1) has been opened after data and level 1 were added.
C22_Witness ==
  /\ op.name = "open_multiscale_group"
  /\ result = "ok"
  /\ levels = {0, 1}
  /\ filled[0] # {}
  /\ ListedLevels(attrs.datasets) = {0, 1}
  /\ name = "other_group"
  /\ spatial_unit = "micrometer"
  /\ voxel_size = <<2, 2, 2>>

\* C29: in every reachable state every level i >= 1 present in the group has
\* the chunk shape, the element type and the compressor of level i-1, hence of
\* level 0.
C29_SharedChunking ==
  \A i \in levels \ {0} :
    /\ i - 1 \in levels
    /\ arrays[i].chunks = arrays[i - 1].chunks
    /\ arrays[i].dtype = arrays[i - 1].dtype
    /\ arrays[i].compressors = arrays[i - 1].compressors
    /\ arrays[i].chunks = arrays[0].chunks
    /\ arrays[i].dtype = arrays[0].dtype
    /\ arrays[i].compressors = arrays[0].compressors

\* C29 witness: levels 1 and 2 were created below a level 0 with chunk side 2,
\* element type int32 and compressor gzip.
C29_Witness ==
  /\ levels = {0, 1, 2}
  /\ pc = "idle"
  /\ result = "ok"
  /\ arrays[0].chunks = <<2, 2, 2>>
  /\ arrays[2].dtype = "int32"
  /\ arrays[2].compressors = "gzip"

\* C23: while the tasks of an add_full_res_data or add_downsample_level call
\* are dispatched blosc.use_threads is 0; the dispatching step saves the value
\* the flag had before the call, the saved value is kept for the whole
\* dispatch, and the step with which the call returns after all tasks
\* completed gives the flag that value back.
C23_CompressorThreads ==
  /\ [](pc \in {"copy", "downsample"} => use_threads = 0)
  /\ [][ (pc = "idle" /\ pc' # "idle")
         => (blosc_use_threads' = use_threads /\ use_threads' = 0) ]_vars
  /\ [][ (pc # "idle" /\ pc' # "idle")
         => blosc_use_threads' = blosc_use_threads ]_vars
  /\ [][ (pc # "idle" /\ pc' = "idle" /\ result' = "ok")
         => (tasks = {} /\ use_threads' = blosc_use_threads) ]_vars

\* C23 witness: a downsampling call that was dispatched with the flag at its
\* start value None (-1) has written blocks and returned, and the flag is -1.
C23_Witness ==
  /\ pc = "idle"
  /\ op.name = "add_downsample_level"
  /\ result = "ok"
  /\ batch # {}
  /\ filled[OpLevel] # {}
  /\ blosc_use_threads = -1
  /\ use_threads = -1

\* A task of the running dispatch that cannot complete: a slab whose
\* destination range is not within level 0, or a block whose read range is not
\* within the source level or whose non-empty read has no valid write range.
TaskFails(t) ==
  IF pc = "copy"
    THEN ~SliceValid(slab_slice(arrays[0], t), arrays[0].shape)
    ELSE LET arr_in == arrays[OpLevel - 1]
             arr_out == arrays[OpLevel]
             isl == in_slice(t.block_idx, arr_out.chunks, arr_in.shape)
             osl == out_slice(t.block_idx, arr_out.chunks, arr_out.shape)
         IN  \/ ~SliceValid(isl, arr_in.shape)
             \/ ~SliceEmpty(isl) /\ ~SliceValid(osl, arr_out.shape)

\* C25: (a) a step in which a failing task of the batch runs ends the call with
\* an error and leaves the metadata document as it is; (b) a call returns
\* normally only if no task of its batch fails; (c) after add_downsample_level
\* has ended with a task error, the level is in no dataset list of the document.
C25_TaskFailurePropagation ==
  /\ [][ (pc # "idle" /\ \E t \in tasks \ tasks' : TaskFails(t))
         => (pc' = "idle" /\ result' = "TaskError" /\ attrs' = attrs) ]_vars
  /\ [][ (pc # "idle" /\ pc' = "idle" /\ result' = "ok")
         => \A t \in batch : ~TaskFails(t) ]_vars
  /\ []( (pc = "idle" /\ op.name = "add_downsample_level" /\ result = "TaskError")
         => \A ds \in StoredDatasets : OpLevel \notin ListedLevels(ds) )

\* C25 witness: add_downsample_level has ended with a task error after some of
\* its blocks were written; the level's array exists and is not listed.
C25_Witness ==
  /\ pc = "idle"
  /\ op.name = "add_downsample_level"
  /\ result = "TaskError"
  /\ attrs.ome
  /\ arrays[OpLevel].present
  /\ filled[OpLevel] # {}
  /\ OpLevel \notin ListedLevels(attrs.datasets)

\* Level l >= 1 was left behind by a failed add_downsample_level: its array
\* exists, some of its voxels were never written, and no dataset list of the
\* document names it.
PartialLevel(l) ==
  /\ l \in Levels \ {0}
  /\ arrays[l].present
  /\ filled[l] # Coords(arrays[l].shape)
  /\ \A ds \in StoredDatasets : l \notin ListedLevels(ds)

\* A step that calls add_downsample_level(l) on the idle group.
DownsampleCalled(l) ==
  /\ pc = "idle"
  /\ op'.name = "add_downsample_level"
  /\ op'.level10 = 10 * l
  /\ <<op', result'>> # <<op, result>>

\* C26: (a) when add_downsample_level(level) has ended with a task error the
\* array of the level exists; (b) add_downsample_level on a level left partial
\* raises the level-already-present error, dispatches nothing and writes
\* nothing; (c) add_downsample_level(level + 1) above a partial level is
\* accepted: the array of level + 1 is created and its blocks are dispatched;
\* (d) no step removes an array, so (b) stays so for every later call.
C26_NoResumableRerun ==
  /\ []( (pc = "idle" /\ op.name = "add_downsample_level" /\ result = "TaskError")
         => arrays[OpLevel].present )
  /\ [][ \A l \in Levels \ {0} :
           (PartialLevel(l) /\ DownsampleCalled(l))
             => ( /\ result' = "RuntimeError: Level already found in zarr group"
                  /\ pc' = "idle"
                  /\ tasks' = {}
                  /\ arrays' = arrays
                  /\ attrs' = attrs
                  /\ filled' = filled ) ]_vars
  /\ [][ \A l \in Levels \ {0} :
           (PartialLevel(l) /\ l + 1 \in Levels /\ ~arrays[l + 1].present
              /\ DownsampleCalled(l + 1))
             => ( /\ result' = "running"
                  /\ pc' = "downsample"
                  /\ arrays'[l + 1].present
                  /\ tasks' # {} ) ]_vars
  /\ [][ \A l \in Levels : arrays[l].present => arrays'[l].present ]_vars

\* C26 witness: add_downsample_level(1) failed with blocks unwritten (the flag
\* blosc.use_threads was left at 0), and a second add_downsample_level(1) has
\* raised the level-already-present error.
C26_Witness ==
  /\ pc = "idle"
  /\ op.name = "add_downsample_level"
  /\ OpLevel = 1
  /\ result = "RuntimeError: Level already found in zarr group"
  /\ attrs.ome
  /\ PartialLevel(1)
  /\ filled[1] # {}
  /\ use_threads = 0
  /\ levels = {0, 1}

\* The other case of C26 happens too: level 2 is being added above a level 1
\* that a failed call left partial.
C26_AcceptedAbovePartial ==
  /\ pc = "downsample"
  /\ OpLevel = 2
  /\ attrs.ome
  /\ PartialLevel(1)
  /\ blosc_use_threads = 0

\* The block indices _downsample_block may be called with.
BlockCandidates == (0 .. MaxX) \X (0 .. MaxY) \X (0 .. MaxZ)

\* C27: while a level is downsampled, (a) every block index generated by
\* add_downsample_level passes the alignment assertion of _downsample_block;
\* (b) _downsample_block on the level's arrays fails, and so writes nothing, for
\* every block index that is not a multiple of 2*C in some axis.
C27_BlockAlignmentPrecondition ==
  pc = "downsample" =>
    LET arr_in == arrays[OpLevel - 1]
        arr_out == arrays[OpLevel]
        C == arr_out.chunks[1]
    IN  /\ \A t \in batch : block_aligned(t.block_idx, arr_out.chunks)
        /\ \A b \in BlockCandidates :
             (\E a \in 1 .. 3 : b[a] % (2 * C) # 0)
               => block_outcome(arr_in, arr_out, b) = "fail"

\* C28: the slab tasks of a dispatched add_full_res_data call, for an input of
\* nz slices and chunk size C, are the intervals [k*C, min((k+1)*C, nz)) for
\* k = 0 .. ceil(nz/C)-1; they are pairwise disjoint and cover [0, nz); every
\* slab but the last has length C and the last has length nz - C*(ceil(nz/C)-1);
\* slab [zmin, zmax) goes to destination [zmin + start_z_idx, zmax + start_z_idx).
C28_SlabPartition ==
  (op.name = "add_full_res_data" /\ op.nz >= 1) =>
    LET C == arrays[0].chunks[1]
        nz == op.nz
        n == (nz + C - 1) \div C
    IN  /\ batch = {[zmin |-> k * C, zmax |-> Min((k + 1) * C, nz),
                     zstart |-> k * C + op.z0,
                     zend |-> Min((k + 1) * C, nz) + op.z0] : k \in 0 .. n - 1}
        /\ Cardinality(batch) = n
        /\ \A s, t \in batch : s # t => (s.zmax <= t.zmin \/ t.zmax <= s.zmin)
        /\ UNION {t.zmin .. t.zmax - 1 : t \in batch} = 0 .. nz - 1
        /\ \A t \in batch :
             /\ t.zmin < t.zmax
             /\ IF t.zmax = nz
                  THEN t.zmax - t.zmin = nz - C * (n - 1)
                  ELSE t.zmax - t.zmin = C
             /\ t.zstart = t.zmin + op.z0
             /\ t.zend = t.zmax + op.z0

\* C28 witness: an input of 3 slices was copied with chunk size 2 as the two
\* slabs [0, 2) and [2, 3), the last one shorter.
C28_Witness ==
  /\ FullResReturned
  /\ arrays[0].chunks[1] = 2
  /\ op.nz = 3
  /\ batch = {[zmin |-> 0, zmax |-> 2, zstart |-> 0, zend |-> 2],
              [zmin |-> 2, zmax |-> 3, zstart |-> 2, zend |-> 3]}

\* C24: memory_per_process returns X * Y * itemsize * chunk_size for an input
\* of shape (X, Y, Z); the result is the same for every other Z; and for
\* X = 583, Y = 245, itemsize 2 and chunk_size 64 it is 18282880.
C24_MemoryEstimate ==
  estimate # NoEstimate =>
    LET X == estimate.shape[1]
        Y == estimate.shape[2]
        size == itemsize(estimate.dtype)
    IN  /\ estimate.bytes = X * Y * size * estimate.chunk_size
        /\ \A z \in 1 .. 156 :
             memory_per_process([shape |-> <<X, Y, z>>, dtype |-> estimate.dtype],
                                estimate.chunk_size) = estimate.bytes
        /\ (X = 583 /\ Y = 245 /\ size = 2 /\ estimate.chunk_size = 64)
             => estimate.bytes = 18282880

\* C24 witness: the call of the tests, memory_per_process(arr, chunk_size=64)
\* on the uint16 array of shape (583, 245, 156), has returned 18282880.
C24_Witness ==
  estimate = [shape |-> <<583, 245, 156>>, dtype |-> "uint16", chunk_size |-> 64,
              bytes |-> 18282880]

\* Every task of the running dispatch completes: each slab has a destination
\* within level 0, each block is read, reduced and written.
BatchSound ==
  /\ pc # "idle"
  /\ \A t \in batch :
       IF pc = "copy"
         THEN copy_slab_ok(arrays[0], t)
         ELSE block_outcome(arrays[OpLevel - 1], arrays[OpLevel], t.block_idx) = "write"

\* Each dispatched task is run in the end, and Parallel returns once all have
\* run: weak fairness of the task steps and of the two returns.
FairSpec ==
  /\ Spec
  /\ WF_vars(\E t \in tasks : _copy_slab(t))
  /\ WF_vars(add_full_res_data_return)
  /\ WF_vars(\E t \in tasks : _downsample_block(t))
  /\ WF_vars(add_downsample_level_return)

\* The parts of C30 on termination: a dispatch none of whose tasks fails leads
\* to the normal return of its call.
C30_EventualReturn == BatchSound ~> (pc = "idle" /\ result = "ok")

\* The parts of C30 on order and on levels: a call returns only when no task
\* of its batch is left and none has failed; dispatching
\* add_downsample_level(level) makes the levels 0 .. level, and they stay so
\* until the call has ended.
C30_ReturnOrder ==
  /\ [][ (pc # "idle" /\ pc' = "idle" /\ result' = "ok")
         => (tasks = {} /\ \A t \in batch : ~TaskFails(t)) ]_vars
  /\ [][ (pc = "idle" /\ pc' = "downsample") => levels' = 0 .. (op'.level10 \div 10) ]_vars
  /\ [][ pc # "idle" => levels' = levels ]_vars
  /\ [](DownsampleReturned => levels = 0 .. OpLevel)

Entries(ds) == {ds[i] : i \in 1 .. Len(ds)}

\* The part of C31 on the list _add_level_metadata computes, for the stored
\* documents of every reachable state and every level: for a listed level it is
\* the list as it was; for a level not listed it has one entry more, the entry
\* of that level, and every entry the list had.
C31_ComputedDocument ==
  \A ds \in StoredDatasets : \A l \in Levels :
    LET out == _add_level_metadata(ds, voxel_size, l)
    IN  IF l \in ListedLevels(ds)
          THEN out = ds
          ELSE /\ Len(out) = Len(ds) + 1
               /\ Cardinality({i \in 1 .. Len(out) : out[i].path = l}) = 1
               /\ Entries(out) = Entries(ds) \cup {new_dataset(voxel_size, l)}
               /\ _add_level_metadata(out, voxel_size, l) = out

C32_EvenAboveOne ==
  rechunked # NoRechunk =>
    \A a \in 1 .. 3 :
      /\ (rechunked.chunksize[a] >= 2
            /\ even_chunksize(rechunked.chunksize)[a] <= rechunked.shape[a])
           => rechunked.even[a] % 2 = 0
      /\ (rechunked.chunksize[a] \in {63, 64} /\ rechunked.shape[a] >= 64)
           => rechunked.even[a] = 64

\* C32: for every input chunk size c >= 1 on every axis the chunk size that
\* _rechunk_to_even yields is even; 63 and 64 both yield 64.
C32_EvenRechunking ==
  rechunked # NoRechunk =>
    \A a \in 1 .. 3 :
      /\ rechunked.even[a] % 2 = 0
      /\ rechunked.chunksize[a] \in {63, 64} => rechunked.even[a] = 64

\* C33: for every block that add_downsample_level dispatches the region
\* _downsample_block reads is within the source array and not empty, the region
\* it writes is within the destination array, and the reduced block has the
\* shape of the region written.
C33_BlockShapeAgreement ==
  (op.name = "add_downsample_level" /\ OpLevel \in Levels \ {0}
     /\ arrays[OpLevel].present /\ arrays[OpLevel - 1].present) =>
    LET arr_in == arrays[OpLevel - 1]
        arr_out == arrays[OpLevel]
    IN  \A b \in block_indices(arr_in.shape, arr_in.chunks[1]) :
          LET isl == in_slice(b, arr_out.chunks, arr_in.shape)
              osl == out_slice(b, arr_out.chunks, arr_out.shape)
          IN  /\ SliceValid(isl, arr_in.shape)
              /\ ~SliceEmpty(isl)
              /\ SliceValid(osl, arr_out.shape)
              /\ ~SliceEmpty(osl)
              /\ reduced_shape(isl) = SliceShape(osl)

\* C34: when an add_full_res_data or add_downsample_level call ends with an
\* error after its dispatch, blosc.use_threads holds the value it had before
\* the call (the value saved at the dispatch).
C34_FlagRestoredOnFailure ==
  [][ (pc # "idle" /\ pc' = "idle" /\ result' # "ok")
      => use_threads' = blosc_use_threads ]_vars

\* A step of add_full_res_data: the call itself, one of its slab tasks, or its
\* return.
FullResStep ==
  \/ pc = "idle" /\ op'.name = "add_full_res_data" /\ <<op', result', pc'>> # <<op, result, pc>>
  \/ pc = "copy"

\* C35: no step of add_full_res_data, whether the call succeeds or fails,
\* changes the set of levels, the shape, chunking, element type or compressor
\* of level 0, any level i >= 1, or the persisted metadata document.
C35_IngestionFrame ==
  [][ FullResStep
      => ( /\ levels' = levels
           /\ path_exists' = path_exists
           /\ arrays'[0].present = arrays[0].present
           /\ arrays'[0].shape = arrays[0].shape
           /\ arrays'[0].chunks = arrays[0].chunks
           /\ arrays'[0].dtype = arrays[0].dtype
           /\ arrays'[0].compressors = arrays[0].compressors
           /\ \A i \in Levels \ {0} : arrays'[i] = arrays[i]
           /\ attrs' = attrs ) ]_vars

\* C35 witness: data was added to a group that holds levels 0 and 1 and lists
\* both; the call has returned and some voxel of level 0 is not zero.
C35_Witness ==
  /\ FullResReturned
  /\ levels = {0, 1}
  /\ ListedLevels(attrs.datasets) = {0, 1}
  /\ filled[0] # {}
  /\ \E c \in Coords(arrays[0].shape) : arrays[0].data[c] # 0

\* The failing case of C35 happens too: a call whose slab does not fit level 0
\* has ended with an error after another slab was written.
C35_FailedCall ==
  /\ pc = "idle"
  /\ op.name = "add_full_res_data"
  /\ result = "TaskError"
  /\ filled[0] # {}

====
